---- MODULE Spec2Model ----
\* Model of server/stream.ts: the SimpleBatcher (pending batch, idle timer,
\* delivery with truncated retry) and the startStream connection loop
\* (connect -> waitForReady -> subscribe -> consume, fixed-delay reconnect,
\* SIGINT handler).  One action per callback / continuation of the
\* single-threaded event loop; everything a callback does synchronously up to
\* its next await is one atomic step.
\*
\* Events are identified by the order in which the consume loop accepted them
\* (event n is the n-th object passed to add); the {fid, timestamp} payload is
\* carried opaquely by the batcher and is not inspected by stream.ts.
EXTENDS Bags, Integers, Sequences, FiniteSets, TLC

\* ---------------------------------------------------------------- constants
BATCH_SIZE == 20
RETRY_KEEP == 10
CAST_TYPE == 1
\* milliseconds in an hour bucket, and in the 24 hours the sink keeps rows for
HOUR_MS == 3600000
DAY_MS == 86400000

\* ------------------------------------------------------------------- bounds
\* accepted casts the upstream yields over the whole run, under Spec (the
\* whole process) and under BatcherSpec (one long-lived subscription)
MaxStreamEvents == 3
MaxEvents == 21
\* total number of delivery calls (fetch) the environment lets be started
MaxCalls == 2
\* number of connect attempts (iterations of the while loop)
MaxAttempts == 3
\* number of SIGINT signals delivered to the process
MaxSigints == 2
\* casts in the batch delivered to the sink, and POST requests the sink
\* receives over the run, on either of its two endpoints
MaxBatchLen == 2
MaxPosts == 2
\* inner message types an upstream envelope can carry (0 = no inner message)
EnvelopeTypes == {0, 1, 2}

VARIABLES
  apiKey,       \* process.env.NEYNAR_API_KEY: "undefined", "" or "key"
  pc,           \* position of startStream's control flow
  exitCode,     \* -1 while running, else the status given to process.exit
  attempts,     \* number of clients created so far (while-loop iterations)
  openClients,  \* attempts whose client handle has not been closed
  batch,        \* SimpleBatcher.batch
  timer,        \* SimpleBatcher.timer: 0 = null, else a timeout handle
  liveTimers,   \* handles scheduled in the event loop (not fired, not cleared)
  nextEvent,    \* number of add calls made so far
  calls,        \* every fetch started, in order, with its status
  sigints,      \* number of SIGINT handler invocations
  lastError,    \* stage at which the latest attempt failed ("none" before)
  castsSeen,    \* envelopes of inner type 1 the subscriptions have yielded
  othersSeen,   \* some envelope of another type (or none) has been yielded
  table,        \* rows of cast_counts at the sink
  sinkBatch,    \* the casts array a delivery call carries to the sink
  sinkClock,    \* what Date.now() reads at the sink
  posts,        \* requests to /api/batch-casts the sink has received
  reqs,         \* the bag of requests in flight at the sink
  done,         \* requests to /api/batch-casts the sink has answered 200
  fails,        \* requests the sink has answered 500
  firstTable,   \* cast_counts when the first of them was answered
  overlap,      \* a request arrived while another one was in flight
  singles,      \* requests to /api/cast the sink has served
  runLen        \* adds since the batcher was last idle (empty, nothing in
                \* flight) with no timer firing since; -1 otherwise

vars == <<apiKey, pc, exitCode, attempts, openClients, batch, timer,
          liveTimers, nextEvent, calls, sigints, lastError, castsSeen,
          othersSeen, table, sinkBatch, sinkClock, posts, reqs, done, fails,
          firstTable, overlap, singles, runLen>>

connVars == <<attempts, openClients, lastError>>
batcherVars == <<batch, timer, liveTimers, nextEvent, calls, runLen>>
seenVars == <<castsSeen, othersSeen>>
sinkVars == <<table, sinkBatch, sinkClock, posts, reqs, done, fails, firstTable,
              overlap, singles>>

\* ------------------------------------------------------------------ helpers
Min(a, b) == IF a < b THEN a ELSE b

\* Array.prototype.slice(0, n)
slice0(s, n) == SubSeq(s, 1, Min(Len(s), n))

Range(s) == {s[i] : i \in 1..Len(s)}

InFlight(cs) == {i \in 1..Len(cs) : cs[i].status = "inflight"}

running == pc \notin {"boot", "exited"}

\* next value of runLen: 0 when the batcher is idle (nothing pending, nothing
\* in flight), else the number of adds made since it was idle, as long as
\* only add has acted on it and nothing was in flight before the add
runNext(isAdd, b2, cs2) ==
  IF b2 = <<>> /\ InFlight(cs2) = {} THEN 0
  ELSE IF isAdd /\ runLen >= 0 /\ InFlight(calls) = {} THEN runLen + 1
  ELSE -1

\* ------------------------------------------------------------ SimpleBatcher
\* variant of flush that sends a copy and leaves the pending batch in place
flushNoSwap(b, tm, lts, cs, trig, n) ==
  IF Len(b) = 0
  THEN [batch |-> b, timer |-> tm, liveTimers |-> lts, calls |-> cs]
  ELSE [batch |-> b,
        timer |-> 0,
        liveTimers |-> IF tm # 0 THEN lts \ {tm} ELSE lts,
        calls |-> Append(cs, [payload |-> b, trigger |-> trig,
                              status |-> "inflight", addsAtStart |-> n,
                              concurrent |-> Cardinality(InFlight(cs))])]

\* variant of flush that leaves the idle timer scheduled
flushKeepTimer(b, tm, lts, cs, trig, n) ==
  IF Len(b) = 0
  THEN [batch |-> b, timer |-> tm, liveTimers |-> lts, calls |-> cs]
  ELSE [batch |-> <<>>,
        timer |-> tm,
        liveTimers |-> lts,
        calls |-> Append(cs, [payload |-> b, trigger |-> trig,
                              status |-> "inflight", addsAtStart |-> n,
                              concurrent |-> Cardinality(InFlight(cs))])]

\* the part of flush() that runs synchronously, up to `await fetch`:
\* b, tm, lts, cs are the batcher's fields on entry, n the number of adds made
flush(b, tm, lts, cs, trig, n) ==
  IF Len(b) = 0
  THEN [batch |-> b, timer |-> tm, liveTimers |-> lts, calls |-> cs]
  ELSE [batch |-> <<>>,
        timer |-> 0,
        liveTimers |-> IF tm # 0 THEN lts \ {tm} ELSE lts,
        calls |-> Append(cs, [payload |-> b, trigger |-> trig,
                              status |-> "inflight", addsAtStart |-> n,
                              concurrent |-> Cardinality(InFlight(cs))])]

\* variant of resetTimer that cancels the old timer and schedules none
resetTimerNoArm(b, tm, lts, cs, h) ==
  [batch |-> b, timer |-> tm,
   liveTimers |-> IF tm # 0 THEN lts \ {tm} ELSE lts, calls |-> cs]

\* variant of resetTimer that schedules a timer without cancelling the old one
resetTimerNoClear(b, tm, lts, cs, h) ==
  IF Len(b) > 0
  THEN [batch |-> b, timer |-> h, liveTimers |-> lts \cup {h}, calls |-> cs]
  ELSE [batch |-> b, timer |-> tm, liveTimers |-> lts, calls |-> cs]

\* resetTimer(): h is the handle setTimeout returns
resetTimer(b, tm, lts, cs, h) ==
  LET cleared == IF tm # 0 THEN lts \ {tm} ELSE lts IN
  IF Len(b) > 0
  THEN [batch |-> b, timer |-> h, liveTimers |-> cleared \cup {h}, calls |-> cs]
  ELSE [batch |-> b, timer |-> tm, liveTimers |-> cleared, calls |-> cs]

\* variant of the size test that fires only at exactly BATCH_SIZE
reachesThresholdExact(b) == Len(b) = BATCH_SIZE

\* variant of the size test that flushes one event late
reachesThresholdLate(b) == Len(b) > BATCH_SIZE

\* the size test of add
reachesThreshold(b) == Len(b) >= BATCH_SIZE

\* add(cast): push, then flush or re-arm.  The event gets number n, and the
\* timer armed by this add gets handle n.
add(b, tm, lts, cs, n) ==
  LET pushed == Append(b, n) IN
  IF reachesThreshold(pushed)
  THEN flush(pushed, tm, lts, cs, "add", n)
  ELSE resetTimer(pushed, tm, lts, cs, n)

\* variant of the catch branch that puts the whole failed batch back
retryInsertAll(b, sent) == sent \o b

\* catch branch of flush: this.batch.unshift(...batchToSend.slice(0, 10))
retryInsert(b, sent) == slice0(sent, RETRY_KEEP) \o b

\* ------------------------------------------------------------------ process
\* values of process.env.NEYNAR_API_KEY: not set, set to "", set to a key
ApiKeys == {"undefined", "", "key"}

\* variant of the credential test that only looks for an unset variable
truthyIfDefined(k) == k # "undefined"

\* JavaScript truthiness of the credential, as tested by !NEYNAR_API_KEY
truthy(k) == k \notin {"undefined", ""}

Init ==
  /\ apiKey \in ApiKeys
  /\ pc = "boot"
  /\ exitCode = -1
  /\ attempts = 0
  /\ openClients = {}
  /\ batch = <<>>
  /\ timer = 0
  /\ liveTimers = {}
  /\ nextEvent = 0
  /\ calls = <<>>
  /\ sigints = 0
  /\ lastError = "none"
  /\ castsSeen = 0
  /\ othersSeen = FALSE
  /\ table = {}
  /\ sinkBatch = <<>>
  /\ sinkClock = 0
  /\ posts = 0
  /\ reqs = EmptyBag
  /\ done = 0
  /\ fails = 0
  /\ firstTable = {}
  /\ overlap = FALSE
  /\ singles = 0
  /\ runLen = 0

\* module top level: credential check, then startStream() up to the loop
Boot ==
  /\ pc = "boot"
  /\ IF truthy(apiKey)
     THEN pc' = "loop" /\ exitCode' = exitCode
     ELSE pc' = "exited" /\ exitCode' = 1
  /\ UNCHANGED <<apiKey, seenVars, sinkVars, connVars, batcherVars, sigints>>

\* top of while(true): create the client and call waitForReady
Connect ==
  /\ pc = "loop"
  /\ attempts < MaxAttempts
  /\ attempts' = attempts + 1
  /\ openClients' = openClients \cup {attempts + 1}
  /\ pc' = "connecting"
  /\ lastError' = lastError
  /\ UNCHANGED <<apiKey, seenVars, sinkVars, exitCode, batcherVars, sigints>>

\* waitForReady calls back with an error: reject(e); return
ReadyFail ==
  /\ pc = "connecting"
  /\ pc' = "delay"
  /\ lastError' = "ready"
  /\ UNCHANGED <<apiKey, seenVars, sinkVars, exitCode, attempts, openClients, batcherVars, sigints>>

\* waitForReady calls back without error: client.subscribe is awaited
ReadyOk ==
  /\ pc = "connecting"
  /\ pc' = "subscribing"
  /\ UNCHANGED <<apiKey, seenVars, sinkVars, exitCode, connVars, batcherVars, sigints>>

\* the subscribe call settles: ok, an Err result, or a thrown error
SubscribeSettle ==
  /\ pc = "subscribing"
  /\ \E res \in {"ok", "err", "throw"} :
       IF res = "ok"
       THEN /\ pc' = "streaming"
            /\ UNCHANGED <<openClients, lastError>>
       ELSE /\ pc' = "delay"
            /\ openClients' = openClients \ {attempts}
            /\ lastError' = "subscribe"
  /\ UNCHANGED <<apiKey, seenVars, sinkVars, exitCode, attempts, batcherVars, sigints>>

\* variant in which the loop waits for a flush that add started
consumeReadyAfterFlush ==
  pc = "streaming" /\ \A i \in InFlight(calls) : calls[i].trigger # "add"

\* the loop is suspended in `for await` and can take the next envelope
consumeReady == pc = "streaming"

\* variant of the filter that accepts every envelope with an inner message
acceptsAnyMessage(ty) == ty # 0

\* the filter: event.mergeMessageBody?.message?.data?.type === 1
accepts(ty) == ty = CAST_TYPE

\* one iteration of the for-await body on an envelope of inner type ty
Consume(ty, cap) ==
  /\ consumeReady
  /\ castsSeen' = IF ty = CAST_TYPE THEN castsSeen + 1 ELSE castsSeen
  /\ othersSeen' = (othersSeen \/ ty # CAST_TYPE)
  /\ IF accepts(ty)
     THEN /\ nextEvent < cap
          /\ Len(calls) < MaxCalls
          /\ LET r == add(batch, timer, liveTimers, calls, nextEvent + 1) IN
               /\ batch' = r.batch
               /\ timer' = r.timer
               /\ liveTimers' = r.liveTimers
               /\ calls' = r.calls
               /\ runLen' = runNext(TRUE, r.batch, r.calls)
          /\ nextEvent' = nextEvent + 1
     ELSE UNCHANGED batcherVars
  /\ UNCHANGED <<apiKey, sinkVars, pc, exitCode, connVars, sigints>>

\* the upstream yields an envelope (at most MaxStreamEvents casts in all)
StreamEvent == \E ty \in EnvelopeTypes : Consume(ty, MaxStreamEvents)

\* a subscription that yields up to MaxEvents envelopes, all of them casts
\* (envelopes of other types leave the batcher as it is)
StreamEventLong == Consume(CAST_TYPE, MaxEvents)

\* variant of the mid-stream failure that retries at once
StreamRaiseNoDelay ==
  /\ pc = "streaming"
  /\ openClients' = openClients \ {attempts}
  /\ pc' = "loop"
  /\ lastError' = "stream"
  /\ UNCHANGED <<apiKey, seenVars, sinkVars, exitCode, attempts, batcherVars, sigints>>

\* the stream raises mid-iteration: catch -> reject, finally -> close,
\* outer catch -> start the 10 s delay
StreamRaise ==
  /\ pc = "streaming"
  /\ openClients' = openClients \ {attempts}
  /\ pc' = "delay"
  /\ lastError' = "stream"
  /\ UNCHANGED <<apiKey, seenVars, sinkVars, exitCode, attempts, batcherVars, sigints>>

\* the stream ends without raising: the for-await loop exits, finally closes
\* the client, and the callback returns without calling resolve or reject,
\* so the promise startStream awaits never settles
StreamEnd ==
  /\ pc = "streaming"
  /\ openClients' = openClients \ {attempts}
  /\ pc' = "hung"
  /\ UNCHANGED <<apiKey, seenVars, sinkVars, exitCode, attempts, lastError, batcherVars, sigints>>

\* After the stream has ended without raising, startStream stays at its
\* await of a promise nobody settles.  A pending promise and the SIGINT
\* listener do not keep the event loop alive: once no timer is scheduled and
\* no fetch is in flight the loop is empty and the process ends by itself with
\* status 0, whatever the pending batch still holds.
LoopDrained ==
  /\ pc = "hung"
  /\ liveTimers = {}
  /\ InFlight(calls) = {}
  /\ pc' = "exited"
  /\ exitCode' = 0
  /\ UNCHANGED <<apiKey, seenVars, sinkVars, connVars, batcherVars, sigints>>

\* the 10 s reconnect delay elapses: back to the top of the loop
DelayElapsed ==
  /\ pc = "delay"
  /\ pc' = "loop"
  /\ UNCHANGED <<apiKey, seenVars, sinkVars, exitCode, connVars, batcherVars, sigints>>

\* the event loop runs the callback of a scheduled timeout: () => this.flush()
TimerFire ==
  /\ running
  /\ \E h \in liveTimers :
       LET r == flush(batch, timer, liveTimers \ {h}, calls, "timer", nextEvent) IN
         /\ batch' = r.batch
         /\ timer' = r.timer
         /\ liveTimers' = r.liveTimers
         /\ calls' = r.calls
         /\ runLen' = runNext(FALSE, r.batch, r.calls)
  /\ UNCHANGED <<apiKey, seenVars, sinkVars, pc, exitCode, connVars, nextEvent, sigints>>

\* variant of the settlement in which a delivery failure escapes flush and
\* is handled as a connection error
SettlePropagates(i, ok) ==
  /\ running
  /\ i \in InFlight(calls)
  /\ calls' = [calls EXCEPT ![i].status = IF ok THEN "ok" ELSE "failed"]
  /\ batch' = IF ok THEN batch ELSE retryInsert(batch, calls[i].payload)
  /\ runLen' = runNext(FALSE, batch', calls')
  /\ IF calls[i].trigger = "sigint"
     THEN pc' = "exited" /\ exitCode' = 0
     ELSE pc' = (IF ok THEN pc ELSE "delay") /\ exitCode' = exitCode
  /\ UNCHANGED <<apiKey, seenVars, sinkVars, connVars, timer, liveTimers, nextEvent, sigints>>

\* variant of the settlement that re-arms the idle timer after a failure
SettleRearm(i, ok) ==
  /\ running
  /\ i \in InFlight(calls)
  /\ calls' = [calls EXCEPT ![i].status = IF ok THEN "ok" ELSE "failed"]
  /\ batch' = IF ok THEN batch ELSE retryInsert(batch, calls[i].payload)
  /\ runLen' = runNext(FALSE, batch', calls')
  /\ IF calls[i].trigger = "sigint"
     THEN pc' = "exited" /\ exitCode' = 0
     ELSE pc' = pc /\ exitCode' = exitCode
  /\ LET r == resetTimer(batch', timer, liveTimers, calls', nextEvent) IN
       IF ok THEN UNCHANGED <<timer, liveTimers>>
       ELSE timer' = r.timer /\ liveTimers' = r.liveTimers
  /\ UNCHANGED <<apiKey, seenVars, sinkVars, connVars, nextEvent, sigints>>

\* the fetch of call i settles and flush resumes: ok is response.ok with no
\* transport error.  A SIGINT handler awaiting this flush then exits.
Settle(i, ok) ==
  /\ running
  /\ i \in InFlight(calls)
  /\ calls' = [calls EXCEPT ![i].status = IF ok THEN "ok" ELSE "failed"]
  /\ batch' = IF ok THEN batch ELSE retryInsert(batch, calls[i].payload)
  /\ runLen' = runNext(FALSE, batch', calls')
  /\ IF calls[i].trigger = "sigint"
     THEN pc' = "exited" /\ exitCode' = 0
     ELSE pc' = pc /\ exitCode' = exitCode
  /\ UNCHANGED <<apiKey, seenVars, sinkVars, connVars, timer, liveTimers, nextEvent, sigints>>

FetchSettle == \E i \in 1..Len(calls) : \E ok \in BOOLEAN : Settle(i, ok)

\* variant of the handler that exits without awaiting the flush
SigintNoAwait ==
  /\ running
  /\ sigints < MaxSigints
  /\ Len(batch) > 0 => Len(calls) < MaxCalls
  /\ sigints' = sigints + 1
  /\ LET r == flush(batch, timer, liveTimers, calls, "sigint", nextEvent) IN
       /\ batch' = r.batch
       /\ timer' = r.timer
       /\ liveTimers' = r.liveTimers
       /\ calls' = r.calls
       /\ runLen' = runNext(FALSE, r.batch, r.calls)
       /\ pc' = "exited" /\ exitCode' = 0
  /\ UNCHANGED <<apiKey, seenVars, sinkVars, connVars, nextEvent>>

\* process.on("SIGINT"): await batcher.flush(); process.exit(0).
\* With nothing pending flush returns at once and the handler exits.
Sigint ==
  /\ running
  /\ sigints < MaxSigints
  /\ Len(batch) > 0 => Len(calls) < MaxCalls
  /\ sigints' = sigints + 1
  /\ LET r == flush(batch, timer, liveTimers, calls, "sigint", nextEvent) IN
       /\ batch' = r.batch
       /\ timer' = r.timer
       /\ liveTimers' = r.liveTimers
       /\ calls' = r.calls
       /\ runLen' = runNext(FALSE, r.batch, r.calls)
       /\ IF Len(batch) = 0
          THEN pc' = "exited" /\ exitCode' = 0
          ELSE pc' = pc /\ exitCode' = exitCode
  /\ UNCHANGED <<apiKey, seenVars, sinkVars, connVars, nextEvent>>

Next ==
  \/ Boot
  \/ Connect
  \/ ReadyFail
  \/ ReadyOk
  \/ SubscribeSettle
  \/ StreamEvent
  \/ StreamRaise
  \/ StreamEnd
  \/ LoopDrained
  \/ DelayElapsed
  \/ TimerFire
  \/ FetchSettle
  \/ Sigint

Spec == Init /\ [][Next]_vars

\* The event loop runs every scheduled timer, every fetch settles, the
\* reconnect delay elapses and the loop body runs when it is its turn.
\* Nothing obliges the upstream to yield, fail or end, nor a signal to come.
FairSpec ==
  /\ Spec
  /\ WF_vars(Boot)
  /\ WF_vars(Connect)
  /\ WF_vars(DelayElapsed)
  /\ WF_vars(TimerFire)
  /\ WF_vars(FetchSettle)
  /\ WF_vars(LoopDrained)

\* The batcher under one subscription that stays up: the state startStream is
\* in once the first subscribe has succeeded (Boot, Connect, ReadyOk,
\* SubscribeSettle from Init), and the callbacks that touch the batcher; the
\* connection steps leave batcherVars unchanged.
InitStreaming ==
  /\ apiKey = "key"
  /\ pc = "streaming"
  /\ exitCode = -1
  /\ attempts = 1
  /\ openClients = {1}
  /\ batch = <<>>
  /\ timer = 0
  /\ liveTimers = {}
  /\ nextEvent = 0
  /\ calls = <<>>
  /\ sigints = 0
  /\ lastError = "none"
  /\ castsSeen = 0
  /\ othersSeen = FALSE
  /\ table = {}
  /\ sinkBatch = <<>>
  /\ sinkClock = 0
  /\ posts = 0
  /\ reqs = EmptyBag
  /\ done = 0
  /\ fails = 0
  /\ firstTable = {}
  /\ overlap = FALSE
  /\ singles = 0
  /\ runLen = 0

NextBatcher ==
  \/ StreamEventLong
  \/ TimerFire
  \/ FetchSettle
  \/ Sigint

BatcherSpec == InitStreaming /\ [][NextBatcher]_vars

FairBatcherSpec ==
  /\ BatcherSpec
  /\ WF_vars(TimerFire)
  /\ WF_vars(FetchSettle)

\* --------------------------------------------------------------------- sink
\* The collection endpoint POST /api/batch-casts, the single-cast endpoint
\* POST /api/cast and their table cast_counts (src/server/src/index.ts,
\* src/server/schema.sql).  Times are milliseconds counted from an epoch placed
\* shortly before the first cast, so that they stay within the range of the
\* checker's integers.

\* subject ids, and the timestamp fields of a cast (0: field absent or zero)
Fids == {1, 2}
Timestamps == {0, 1, HOUR_MS - 1}

\* readings of Date.now() at the sink, the first of them when it starts
FirstClock == HOUR_MS + 1
Clocks == {FirstClock, DAY_MS + 2, DAY_MS + HOUR_MS + 1}

\* the casts requests carry: one subject with no timestamp and with two
\* timestamps of one hour bucket, and a second subject
Casts ==
  {c \in [fid : Fids, timestamp : Timestamps] : c.fid = 1 \/ c.timestamp = 1}
Batches == UNION {[1..n -> Casts] : n \in 0..MaxBatchLen}

\* Math.floor(now / (1000 * 60 * 60))
hourBucketOf(now) == now \div HOUR_MS

\* rows of cast_counts (fid, cast_time, hour_bucket)
Rows ==
  {r \in [fid : Fids, cast_time : Timestamps \cup Clocks,
          hour_bucket : {hourBucketOf(t) : t \in Timestamps \cup Clocks}] :
     r.hour_bucket = hourBucketOf(r.cast_time)}

\* variant of the time of a cast that ignores the timestamp it carries
castTimeNow(timestamp, clock) == clock

\* const now = timestamp || Date.now()
castTime(timestamp, clock) == IF timestamp # 0 THEN timestamp ELSE clock

\* the statement of recordCast, executed by the database with the values
\* bound to it: INSERT ... ON CONFLICT(fid, hour_bucket) DO UPDATE SET cast_time
upsert(t, fid, now) ==
  {r \in t : ~(r.fid = fid /\ r.hour_bucket = hourBucketOf(now))}
    \cup {[fid |-> fid, cast_time |-> now, hour_bucket |-> hourBucketOf(now)]}

\* const cutoff = Date.now() - 24 * 60 * 60 * 1000
cutoffAt(clock) == clock - DAY_MS

\* the statement of cleanOldCasts, executed by the database with the cutoff
\* bound to it: DELETE FROM cast_counts WHERE cast_time < ?
deleteBefore(t, cutoff) == {r \in t : ~(r.cast_time < cutoff)}

\* A request in flight: kind is "batch" or "single"; pos is the number of casts
\* recorded so far; stage is "run" (the handler is to run its next turn),
\* "insert" or "delete" (it waits for the statement it issued, to which fid and
\* bound were bound) or "answer" (the cleanup is done).
request(kind, pos, stage, fid, bound) ==
  [kind |-> kind, pos |-> pos, stage |-> stage, fid |-> fid, bound |-> bound]

sinkRequests == BagToSet(reqs)

\* no request is in flight
quiet == reqs = EmptyBag

\* request r goes on as request q
moved(r, q) == (reqs (-) SetToBag({r})) (+) SetToBag({q})

\* request r has been answered
left(r) == reqs (-) SetToBag({r})

\* time passes at the sink
Tick ==
  /\ \E c \in Clocks : c > sinkClock /\ sinkClock' = c
  /\ UNCHANGED <<apiKey, seenVars, table, sinkBatch, posts, reqs, done, fails,
                 firstTable, overlap, singles, pc, exitCode, connVars,
                 batcherVars, sigints>>

\* a request to POST /api/batch-casts carrying sinkBatch arrives and waits for
\* its body
PostArrive ==
  /\ posts + singles < MaxPosts
  /\ posts' = posts + 1
  /\ reqs' = reqs (+) SetToBag({request("batch", 0, "run", 0, 0)})
  /\ overlap' = (overlap \/ \E r \in sinkRequests : r.kind = "batch")
  /\ UNCHANGED <<apiKey, seenVars, table, sinkBatch, sinkClock, done, fails,
                 firstTable, singles, pc, exitCode, connVars, batcherVars,
                 sigints>>

\* a turn of the loop of a request: recordCast reads the clock, binds the
\* values of the next cast to the INSERT and waits for the database
RecordIssue(r) ==
  /\ r.kind = "batch" /\ r.stage = "run" /\ r.pos < Len(sinkBatch)
  /\ reqs' = moved(r, request("batch", r.pos, "insert",
                              sinkBatch[r.pos + 1].fid,
                              castTime(sinkBatch[r.pos + 1].timestamp,
                                       sinkClock)))
  /\ UNCHANGED <<apiKey, seenVars, table, sinkBatch, sinkClock, posts, done,
                 fails, firstTable, overlap, singles, pc, exitCode, connVars,
                 batcherVars, sigints>>

\* the database executes the INSERT a request waits for
RecordExecute(r) ==
  /\ r.kind = "batch" /\ r.stage = "insert"
  /\ table' = upsert(table, r.fid, r.bound)
  /\ reqs' = moved(r, request("batch", r.pos + 1, "run", 0, 0))
  /\ UNCHANGED <<apiKey, seenVars, sinkBatch, sinkClock, posts, done, fails,
                 firstTable, overlap, singles, pc, exitCode, connVars,
                 batcherVars, sigints>>

\* after the loop Math.random() < 0.01: cleanOldCasts reads the clock, binds
\* the cutoff to the DELETE and waits for the database
CleanIssue(r) ==
  /\ r.kind = "batch" /\ r.stage = "run" /\ r.pos = Len(sinkBatch)
  /\ reqs' = moved(r, request("batch", r.pos, "delete", 0,
                              cutoffAt(sinkClock)))
  /\ UNCHANGED <<apiKey, seenVars, table, sinkBatch, sinkClock, posts, done,
                 fails, firstTable, overlap, singles, pc, exitCode, connVars,
                 batcherVars, sigints>>

\* the database executes the DELETE a request waits for
CleanExecute(r) ==
  /\ r.kind = "batch" /\ r.stage = "delete"
  /\ table' = deleteBefore(table, r.bound)
  /\ reqs' = moved(r, request("batch", r.pos, "answer", 0, 0))
  /\ UNCHANGED <<apiKey, seenVars, sinkBatch, sinkClock, posts, done, fails,
                 firstTable, overlap, singles, pc, exitCode, connVars,
                 batcherVars, sigints>>

\* the request is answered 200: after the loop when Math.random() >= 0.01, or
\* after the cleanup
Answer(r) ==
  /\ r.kind = "batch"
  /\ \/ r.stage = "run" /\ r.pos = Len(sinkBatch)
     \/ r.stage = "answer"
  /\ reqs' = left(r)
  /\ done' = done + 1
  /\ firstTable' = IF done = 0 THEN table ELSE firstTable
  /\ UNCHANGED <<apiKey, seenVars, table, sinkBatch, sinkClock, posts, fails,
                 overlap, singles, pc, exitCode, connVars, batcherVars,
                 sigints>>

\* the statement a request waits for fails: the catch branch answers 500 and
\* the casts recorded before stay recorded
StatementFails(r) ==
  /\ r.stage \in {"insert", "delete"}
  /\ reqs' = left(r)
  /\ fails' = fails + 1
  /\ UNCHANGED <<apiKey, seenVars, table, sinkBatch, sinkClock, posts, done,
                 firstTable, overlap, singles, pc, exitCode, connVars,
                 batcherVars, sigints>>

\* a request to POST /api/cast with a fid: recordCast reads the clock, binds
\* the values of the cast to the INSERT and waits for the database
PostCast ==
  /\ posts + singles < MaxPosts
  /\ \E c \in Casts :
       reqs' = reqs (+) SetToBag({request("single", 0, "insert", c.fid,
                                          castTime(c.timestamp, sinkClock))})
  /\ singles' = singles + 1
  /\ UNCHANGED <<apiKey, seenVars, table, sinkBatch, sinkClock, posts, done,
                 fails, firstTable, overlap, pc, exitCode, connVars,
                 batcherVars, sigints>>

\* the database executes the INSERT of a request to /api/cast, which is
\* answered 200
CastExecute(r) ==
  /\ r.kind = "single" /\ r.stage = "insert"
  /\ table' = upsert(table, r.fid, r.bound)
  /\ reqs' = left(r)
  /\ UNCHANGED <<apiKey, seenVars, sinkBatch, sinkClock, posts, done, fails,
                 firstTable, overlap, singles, pc, exitCode, connVars,
                 batcherVars, sigints>>

\* the sink alone: an empty table and any batch, delivered up to MaxPosts times
InitSink ==
  /\ apiKey = "key"
  /\ pc = "streaming"
  /\ exitCode = -1
  /\ attempts = 1
  /\ openClients = {1}
  /\ batch = <<>>
  /\ timer = 0
  /\ liveTimers = {}
  /\ nextEvent = 0
  /\ calls = <<>>
  /\ sigints = 0
  /\ lastError = "none"
  /\ castsSeen = 0
  /\ othersSeen = FALSE
  /\ table = {}
  /\ sinkBatch \in Batches
  /\ sinkClock = FirstClock
  /\ posts = 0
  /\ reqs = EmptyBag
  /\ done = 0
  /\ fails = 0
  /\ firstTable = {}
  /\ overlap = FALSE
  /\ singles = 0
  /\ runLen = 0

NextSink ==
  \/ Tick
  \/ PostArrive
  \/ \E r \in sinkRequests : RecordIssue(r)
  \/ \E r \in sinkRequests : RecordExecute(r)
  \/ \E r \in sinkRequests : CleanIssue(r)
  \/ \E r \in sinkRequests : CleanExecute(r)
  \/ \E r \in sinkRequests : Answer(r)
  \/ \E r \in sinkRequests : StatementFails(r)
  \/ PostCast
  \/ \E r \in sinkRequests : CastExecute(r)

SinkSpec == InitSink /\ [][NextSink]_vars

\* ------------------------------------------------------------------ claims
\* the last k events passed to add, in the order they were added
lastAdded(k) == [j \in 1..k |-> nextEvent - k + j]

\* calls started after the add numbered n returned
startedSince(n) == {i \in 1..Len(calls) : calls[i].addsAtStart > n}

\* a step in which a scheduled timeout ran (as opposed to being cleared)
timerStep ==
  /\ liveTimers # {}
  /\ liveTimers' # liveTimers
  /\ nextEvent' = nextEvent
  /\ sigints' = sigints

\* C1: starting from an idle batcher (nothing pending, nothing in flight),
\* right after the BATCH_SIZE-th consecutive add with no timer firing in
\* between, exactly one delivery call has been started, it is in flight, it
\* carries exactly those BATCH_SIZE events in insertion order, the pending
\* batch is empty and no idle timer is live.
C1_SizeTriggeredFlush ==
  runLen = BATCH_SIZE =>
    /\ batch = <<>>
    /\ liveTimers = {}
    /\ timer = 0
    /\ startedSince(nextEvent - BATCH_SIZE) = {Len(calls)}
    /\ InFlight(calls) = {Len(calls)}
    /\ calls[Len(calls)].payload = lastAdded(BATCH_SIZE)
    /\ calls[Len(calls)].trigger = "add"

C1_Witness ==
  /\ runLen = BATCH_SIZE
  /\ Len(calls) = 2
  /\ Len(calls[2].payload) = BATCH_SIZE
  /\ calls[2].payload[1] = 2

\* C2: starting from an idle batcher, after k adds with 1 <= k < BATCH_SIZE
\* no delivery call has been started and the timer armed by the last add is
\* live; when that timer fires exactly one delivery call is started and it
\* carries exactly those k events; and, if no further add or signal comes,
\* the timer does fire and that call is started.
C2_BeforeTimer ==
  runLen \in 1..(BATCH_SIZE - 1) =>
    /\ startedSince(nextEvent - runLen) = {}
    /\ InFlight(calls) = {}
    /\ batch = lastAdded(runLen)
    /\ liveTimers = {nextEvent}

C2_OnTimer ==
  (runLen \in 1..(BATCH_SIZE - 1) /\ timerStep) =>
    /\ Len(calls') = Len(calls) + 1
    /\ calls'[Len(calls')].payload = lastAdded(runLen)
    /\ calls'[Len(calls')].trigger = "timer"
    /\ InFlight(calls') = {Len(calls')}
    /\ batch' = <<>>
    /\ liveTimers' = {}

C2_TimeoutTriggeredFlush ==
  /\ []C2_BeforeTimer
  /\ [][C2_OnTimer]_vars
  /\ (runLen \in 1..(BATCH_SIZE - 1)) ~> (runLen \notin 1..(BATCH_SIZE - 1))

C2_Witness ==
  /\ Len(calls) = 1
  /\ calls[1].trigger = "timer"
  /\ calls[1].payload = <<1, 2, 3>>
  /\ nextEvent = 3
  /\ batch = <<>>

\* C3: every add that leaves the pending batch below BATCH_SIZE cancels the
\* timer armed before and arms its own, so that the only timer that can ever
\* fire is the one armed by the last add.
C3_Step ==
  /\ liveTimers' \subseteq {nextEvent'}
  /\ (nextEvent' = nextEvent + 1 /\ Len(batch') \in 1..(BATCH_SIZE - 1)) =>
       (liveTimers' = {nextEvent'} /\ timer' = nextEvent')
  /\ timerStep => liveTimers \ liveTimers' = {nextEvent}

C3_TimerCoalescing == [][C3_Step]_vars

C3_Witness ==
  /\ Len(calls) = 1
  /\ calls[1].trigger = "timer"
  /\ calls[1].addsAtStart = 4
  /\ calls[1].payload = <<1, 2, 3, 4>>

\* C4: when the delivery of a batch of n events fails, exactly its first
\* min(n, RETRY_KEEP) events are put back, in order, in front of whatever is
\* pending; the events beyond them are in no pending batch and in no call
\* started afterwards.
C4_OnFailure ==
  \A i \in 1..Len(calls) :
    (i \in InFlight(calls) /\ calls'[i].status = "failed") =>
      LET sent == calls[i].payload
          kept == Min(Len(sent), RETRY_KEEP) IN
        /\ Len(batch') = kept + Len(batch)
        /\ \A j \in 1..kept : batch'[j] = sent[j]
        /\ \A j \in 1..Len(batch) : batch'[kept + j] = batch[j]

dropped(i) ==
  IF calls[i].status = "failed"
  THEN {calls[i].payload[j] : j \in (RETRY_KEEP + 1)..Len(calls[i].payload)}
  ELSE {}

C4_DroppedGone ==
  \A i \in 1..Len(calls) : \A e \in dropped(i) :
    /\ e \notin Range(batch)
    /\ \A j \in (i + 1)..Len(calls) : e \notin Range(calls[j].payload)

C4_RetryTruncation == []C4_DroppedGone /\ [][C4_OnFailure]_vars

C4_Witness ==
  /\ Len(calls) = 1
  /\ calls[1].status = "failed"
  /\ Len(calls[1].payload) = BATCH_SIZE
  /\ batch = <<1, 2, 3, 4, 5, 6, 7, 8, 9, 10, 21>>

\* C5: an event added while a delivery call is in flight is not in that
\* call's payload; it is pending or in the payload of a later call, and once
\* its timer has run it is in a later call; unless the earlier call failed,
\* no event is in the payloads of both, and what is being sent is disjoint
\* from what is being filled.
C5_Disjoint ==
  /\ \A i \in 1..Len(calls) : \A e \in Range(calls[i].payload) :
       e <= calls[i].addsAtStart
  /\ \A e \in 1..nextEvent :
       e \in Range(batch) \/ \E j \in 1..Len(calls) : e \in Range(calls[j].payload)
  /\ \A i \in 1..Len(calls) : calls[i].status # "failed" =>
       /\ Range(calls[i].payload) \cap Range(batch) = {}
       /\ \A j \in (i + 1)..Len(calls) :
            Range(calls[i].payload) \cap Range(calls[j].payload) = {}

C5_SwapThenSend ==
  /\ []C5_Disjoint
  /\ (batch # <<>> /\ liveTimers # {}) ~> (batch = <<>> \/ pc = "exited")

C5_Witness ==
  /\ Len(calls) = 2
  /\ calls[1].status = "ok"
  /\ calls[2].concurrent = 1
  /\ calls[2].payload[1] > calls[1].addsAtStart

\* C6 (as claimed): the connection manager has no terminal state; also after
\* the upstream sequence has ended without raising, a new connect attempt is
\* eventually made unless a termination signal arrives.
C6_NoTerminalState ==
  (pc \in {"delay", "hung"} /\ attempts < MaxAttempts)
    ~> (pc = "connecting" \/ sigints > 0)

\* number of places an event is held: the pending batch and the payloads of
\* the calls that have not failed
copies(e) ==
  Cardinality({j \in 1..Len(batch) : batch[j] = e})
  + Cardinality({ij \in (1..Len(calls)) \X (1..(MaxEvents + 1)) :
       /\ calls[ij[1]].status # "failed"
       /\ ij[2] <= Len(calls[ij[1]].payload)
       /\ calls[ij[1]].payload[ij[2]] = e})

allDropped == UNION {dropped(i) : i \in 1..Len(calls)}

\* C7: when the upstream sequence raises, nothing is forwarded or taken back
\* (every event accepted so far has been passed to add exactly once and is
\* held exactly once), the process keeps running, and the next connect
\* attempt is made only from the top of the loop, reached only through the
\* delay; after every failure, whatever the number of failures before it, the
\* attempt is eventually made.
C7_Step ==
  /\ (pc = "streaming" /\ pc' = "delay") =>
       /\ nextEvent' = nextEvent
       /\ batch' = batch
       /\ calls' = calls
       /\ exitCode' = -1
       /\ lastError' = "stream"
  /\ attempts' # attempts => (pc = "loop" /\ attempts' = attempts + 1)
  /\ (pc' = "loop" /\ pc # "loop") => pc \in {"boot", "delay"}
  /\ nextEvent' # nextEvent =>
       (nextEvent' = nextEvent + 1 /\ pc = "streaming" /\ pc' = "streaming")

C7_ForwardedOnce ==
  \A e \in 1..nextEvent : copies(e) = IF e \in allDropped THEN 0 ELSE 1

C7_ReconnectAfterDelay ==
  /\ []C7_ForwardedOnce
  /\ [][C7_Step]_vars
  /\ (pc = "delay" /\ attempts < MaxAttempts)
       ~> (pc = "connecting" \/ pc = "exited")

C7_Witness ==
  /\ pc = "connecting"
  /\ attempts = 3
  /\ lastError = "stream"
  /\ nextEvent = 3
  /\ batch = <<1, 2, 3>>

\* C8 (as claimed): when a connect attempt starts, no client handle of an
\* earlier attempt is still open, whichever stage that attempt failed at.
C8_ClosedBeforeRetry ==
  pc = "connecting" => openClients \subseteq {attempts}

\* C9 (as claimed): while a delivery call started by add reaching the size
\* threshold is in flight, the loop passes no further event to add.
C9_AddFlushAwaited ==
  [][(\E i \in InFlight(calls) : calls[i].trigger = "add")
       => nextEvent' = nextEvent]_vars

\* C9 (amended): add does not wait for the flush it starts.  While a call
\* started by add (or by the timer) is in flight the loop is still at its
\* for-await and takes the next cast as soon as the upstream yields it; the
\* process waits for a delivery only in the shutdown handler.
C9_AddFlushNotAwaited ==
  \A i \in InFlight(calls) :
    (calls[i].trigger \in {"add", "timer"} /\ pc # "exited"
       /\ nextEvent < MaxEvents /\ Len(calls) < MaxCalls)
      => (pc = "streaming" /\ ENABLED Consume(CAST_TYPE, MaxEvents))

C9_Witness ==
  /\ Len(calls) = 1
  /\ calls[1].trigger = "add"
  /\ calls[1].status = "inflight"
  /\ batch = <<BATCH_SIZE + 1>>

\* C10: a termination signal that finds m >= 1 events pending and nothing in
\* flight starts exactly one delivery call, carrying exactly the pending
\* events, and cancels the idle timer; no later call carries those events;
\* when it is the only signal, the process exits only once that call has
\* settled (either way), with status 0, and it does exit.
shutdownCalls ==
  {i \in 1..Len(calls) : calls[i].trigger = "sigint" /\ calls[i].concurrent = 0}

C10_Inv ==
  \A i \in shutdownCalls :
    /\ calls[i].payload # <<>>
    /\ \A j \in (i + 1)..Len(calls) :
         Range(calls[i].payload) \cap Range(calls[j].payload) = {}
    /\ calls[i].status = "inflight" =>
         Range(calls[i].payload) \cap Range(batch) = {}
    /\ (sigints = 1 /\ pc = "exited") =>
         (calls[i].status # "inflight" /\ exitCode = 0)

C10_Step ==
  (sigints' = sigints + 1 /\ batch # <<>> /\ InFlight(calls) = {}) =>
    /\ Len(calls') = Len(calls) + 1
    /\ calls'[Len(calls')].payload = batch
    /\ calls'[Len(calls')].trigger = "sigint"
    /\ batch' = <<>>
    /\ liveTimers' = {}
    /\ pc' = pc

C10_GracefulShutdown ==
  /\ []C10_Inv
  /\ [][C10_Step]_vars
  /\ (sigints = 1) ~> (pc = "exited" \/ sigints > 1)

C10_Witness ==
  /\ pc = "exited"
  /\ exitCode = 0
  /\ sigints = 1
  /\ Len(calls) = 1
  /\ calls[1].trigger = "sigint"
  /\ calls[1].status = "failed"
  /\ calls[1].payload = <<1, 2, 3, 4, 5>>

\* C11: at most one idle timer is scheduled, it is the one the timer field
\* holds, a scheduled timer implies a non-empty pending batch and an empty
\* pending batch implies no scheduled timer, whatever adds, timer firings,
\* flushes and settlements have happened.
C11_TimerInvariant ==
  /\ Cardinality(liveTimers) <= 1
  /\ liveTimers \subseteq {timer}
  /\ liveTimers # {} => batch # <<>>
  /\ batch = <<>> => liveTimers = {}

C11_Witness ==
  /\ Len(calls) = 1
  /\ calls[1].status = "failed"
  /\ calls[1].trigger = "add"
  /\ liveTimers = {timer}
  /\ Len(batch) > RETRY_KEEP

\* C12 (as claimed): the pending batch is in insertion order in every
\* reachable state: an event accepted earlier stands before one accepted later.
C12_InsertionOrder ==
  \A i \in 1..Len(batch) : \A j \in 1..Len(batch) :
    i < j => batch[i] < batch[j]

\* where an event is
inPending(e) == Cardinality({j \in 1..Len(batch) : batch[j] = e})

inCalls(e, st) ==
  Cardinality({ij \in (1..Len(calls)) \X (1..(MaxEvents + 1)) :
     /\ calls[ij[1]].status = st
     /\ ij[2] <= Len(calls[ij[1]].payload)
     /\ calls[ij[1]].payload[ij[2]] = e})

isDropped(e) ==
  IF inPending(e) + inCalls(e, "inflight") + inCalls(e, "ok") = 0
     /\ e \in allDropped
  THEN 1 ELSE 0

\* C13: every event passed to add is in exactly one place: the pending
\* batch (once), the payload of one call in flight, one successfully
\* delivered payload, or dropped by the truncation of a failed batch; an
\* event that is in none of the first three lay beyond the first RETRY_KEEP
\* records of a failed batch, and no event is delivered twice.
C13_ExactlyOnePlace ==
  \A e \in 1..nextEvent :
    /\ inPending(e) + inCalls(e, "inflight") + inCalls(e, "ok") + isDropped(e) = 1
    /\ inCalls(e, "ok") <= 1

C13_Witness ==
  /\ Len(calls) = 2
  /\ calls[1].status = "failed"
  /\ Len(calls[1].payload) > RETRY_KEEP
  /\ calls[2].status = "ok"
  /\ calls[2].payload[1] = 1
  /\ allDropped # {}

\* C14 (as claimed): no delivery call carries more than BATCH_SIZE events.
C14_PayloadBounded ==
  \A i \in 1..Len(calls) : Len(calls[i].payload) <= BATCH_SIZE

\* a step in which the fetch of call i settles as failed
failureStep(i) == i \in InFlight(calls) /\ calls'[i].status = "failed"

\* C15: a delivery failure stays inside flush, however the flush was
\* triggered: the step in which it is handled changes neither the position
\* of the connection loop, nor the attempt count, the open clients or the
\* recorded connection error, and it exits the process only where a
\* successful delivery would too (the shutdown handler, status 0); after it
\* the consume loop is still ready for the next cast.
C15_Step ==
  \A i \in 1..Len(calls) : failureStep(i) =>
    /\ attempts' = attempts
    /\ openClients' = openClients
    /\ lastError' = lastError
    /\ IF calls[i].trigger = "sigint"
       THEN pc' = "exited" /\ exitCode' = 0
       ELSE pc' = pc /\ exitCode' = -1

C15_StillConsuming ==
  ((\E i \in 1..Len(calls) : calls[i].status = "failed")
     /\ pc # "exited" /\ nextEvent < MaxEvents /\ Len(calls) < MaxCalls)
    => (pc = "streaming" /\ ENABLED Consume(CAST_TYPE, MaxEvents))

C15_FailureContained == []C15_StillConsuming /\ [][C15_Step]_vars

C15_Witness ==
  /\ Len(calls) = 2
  /\ calls[1].status = "failed"
  /\ calls[1].trigger = "add"
  /\ calls[2].status = "failed"
  /\ calls[2].trigger = "timer"
  /\ pc = "streaming"
  /\ exitCode = -1

\* C18: the handling of a failed delivery neither schedules a timer nor
\* starts a call; records put back while nothing was added since the flush
\* lie in the pending batch with no timer scheduled, and from such a state a
\* delivery call is started only by an add or by the shutdown handler.
C18_Step ==
  /\ \A i \in 1..Len(calls) : failureStep(i) =>
       /\ liveTimers' = liveTimers
       /\ timer' = timer
       /\ Len(calls') = Len(calls)
       /\ nextEvent = calls[i].addsAtStart =>
            /\ liveTimers' = {}
            /\ batch' = slice0(calls[i].payload, RETRY_KEEP) \o batch
  /\ (batch # <<>> /\ liveTimers = {} /\ Len(calls') > Len(calls)) =>
       (nextEvent' = nextEvent + 1 \/ sigints' = sigints + 1)

C18_NoRetrigger == [][C18_Step]_vars

C18_Witness ==
  /\ Len(calls) = 2
  /\ calls[1].status = "failed"
  /\ calls[1].trigger = "timer"
  /\ calls[1].payload = <<1, 2>>
  /\ calls[2].trigger = "add"
  /\ calls[2].addsAtStart = BATCH_SIZE
  /\ Len(calls[2].payload) = BATCH_SIZE

\* C19: right after add returns, whatever was pending before (also
\* BATCH_SIZE or more records put back by failures), either the pending
\* batch is empty, no timer is scheduled and one delivery call carrying all
\* that was pending plus the new event has just been started, or the pending
\* batch holds 1..BATCH_SIZE-1 events, exactly one timer is scheduled and no
\* call was started.
C19_Step ==
  nextEvent' = nextEvent + 1 =>
    \/ /\ batch' = <<>>
       /\ liveTimers' = {}
       /\ Len(calls') = Len(calls) + 1
       /\ calls'[Len(calls')].status = "inflight"
       /\ calls'[Len(calls')].payload = Append(batch, nextEvent')
    \/ /\ Len(batch') \in 1..(BATCH_SIZE - 1)
       /\ Cardinality(liveTimers') = 1
       /\ calls' = calls

C19_AfterAdd == [][C19_Step]_vars

C19_Witness ==
  /\ Len(calls) = 2
  /\ calls[1].status = "failed"
  /\ calls[2].trigger = "add"
  /\ Len(calls[2].payload) > BATCH_SIZE
  /\ batch = <<>>

\* C16: an envelope whose inner type is not CAST_TYPE, or that has no inner
\* message, changes nothing in the accumulator; add is called once for each
\* envelope of type CAST_TYPE yielded while subscribed and for nothing else,
\* and every event so added is or has been held by the accumulator.
C16_Step ==
  /\ (castsSeen' = castsSeen /\ othersSeen' # othersSeen) =>
       UNCHANGED <<batch, timer, liveTimers, nextEvent, calls>>
  /\ castsSeen' # castsSeen => (pc = "streaming" /\ nextEvent' = nextEvent + 1)

C16_OnePerCast ==
  /\ nextEvent = castsSeen
  /\ \A e \in 1..nextEvent :
       e \in Range(batch) \/ \E i \in 1..Len(calls) : e \in Range(calls[i].payload)

C16_FilterCorrectness == []C16_OnePerCast /\ [][C16_Step]_vars

C16_Witness ==
  /\ othersSeen
  /\ castsSeen = 2
  /\ batch = <<1, 2>>
  /\ pc = "streaming"

\* C17: with the credential unset or empty the process exits with status 1
\* before startStream runs: no client is ever created, no subscription is
\* made, no envelope is consumed and no delivery call is started.
C17_Inv ==
  ~truthy(apiKey) =>
    /\ pc \in {"boot", "exited"}
    /\ pc = "exited" => exitCode = 1
    /\ attempts = 0
    /\ openClients = {}
    /\ castsSeen = 0
    /\ nextEvent = 0
    /\ calls = <<>>
    /\ sigints = 0

C17_MissingCredential ==
  /\ []C17_Inv
  /\ (apiKey \in {"undefined", ""}) ~> (pc = "exited" /\ exitCode = 1)

C17_Witness == apiKey = "" /\ pc = "exited" /\ exitCode = 1

\* every cast of the delivered batch carries a positive timestamp
positiveBatch == \A i \in 1..Len(sinkBatch) : sinkBatch[i].timestamp > 0

\* the batch has been processed twice, one request after the other, and
\* nothing else wrote to the table
processedTwice ==
  /\ done >= 2
  /\ quiet
  /\ ~overlap
  /\ singles = 0
  /\ fails = 0
  /\ positiveBatch

\* C20 as stated: processing a batch of positive timestamps twice leaves
\* cast_counts in the state the first processing of it left.
C20_Idempotent == processedTwice => table = firstTable

C20_OneRowPerKey ==
  \A r1, r2 \in table :
    (r1.fid = r2.fid /\ r1.hour_bucket = r2.hour_bucket) => r1 = r2

\* the rows a batch of positive timestamps stands for: for each (fid, hour
\* bucket) in it, the timestamp of the last cast with that key
batchRows ==
  {[fid |-> sinkBatch[i].fid, cast_time |-> sinkBatch[i].timestamp,
    hour_bucket |-> hourBucketOf(sinkBatch[i].timestamp)] :
     i \in {k \in 1..Len(sinkBatch) :
              \A j \in (k + 1)..Len(sinkBatch) :
                ~(/\ sinkBatch[j].fid = sinkBatch[k].fid
                  /\ hourBucketOf(sinkBatch[j].timestamp)
                       = hourBucketOf(sinkBatch[k].timestamp))}}

old(r) == r.cast_time < sinkClock - DAY_MS

C20_UpToCleanup ==
  /\ processedTwice =>
       \A r \in (table \ firstTable) \cup (firstTable \ table) : old(r)
  /\ (done >= 1 /\ quiet /\ singles = 0 /\ fails = 0 /\ positiveBatch) =>
       /\ table \subseteq batchRows
       /\ \A r \in batchRows \ table : old(r)

\* C20: cast_counts holds at most one row per (fid, hour bucket), and
\* processing a batch of positive timestamps again leaves the table as the
\* first processing left it, except for rows whose cast_time is more than
\* 24 hours in the past: the cleanup that a request runs at random deletes
\* such rows, and a request that runs no cleanup records them again.  However
\* the requests that carry the batch overlap, once all are answered the table
\* holds the rows of the batch, less such old rows.
C20_RedeliveryIdempotent == C20_OneRowPerKey /\ C20_UpToCleanup

C20_Witness ==
  /\ processedTwice
  /\ Len(sinkBatch) = 2
  /\ sinkBatch[1].fid = sinkBatch[2].fid
  /\ sinkBatch[1].timestamp # sinkBatch[2].timestamp
  /\ hourBucketOf(sinkBatch[1].timestamp) = hourBucketOf(sinkBatch[2].timestamp)
  /\ Cardinality(table) = 1

TypeOK ==
  /\ apiKey \in ApiKeys
  /\ castsSeen \in 0..MaxEvents
  /\ othersSeen \in BOOLEAN
  /\ table \subseteq Rows
  /\ sinkBatch \in Batches
  /\ sinkClock \in Clocks \cup {0}
  /\ posts \in 0..MaxPosts
  /\ IsABag(reqs)
  /\ \A r \in sinkRequests :
       /\ r.kind \in {"batch", "single"}
       /\ r.pos \in 0..Len(sinkBatch)
       /\ r.stage \in {"run", "insert", "delete", "answer"}
       /\ r.fid \in Fids \cup {0}
  /\ fails \in 0..MaxPosts
  /\ done \in 0..MaxPosts
  /\ firstTable \subseteq Rows
  /\ overlap \in BOOLEAN
  /\ singles \in 0..MaxPosts
  /\ pc \in {"boot", "loop", "connecting", "subscribing", "streaming",
             "hung", "delay", "exited"}
  /\ exitCode \in {-1, 0, 1}
  /\ attempts \in 0..MaxAttempts
  /\ openClients \subseteq 1..MaxAttempts
  /\ timer \in 0..MaxEvents
  /\ liveTimers \subseteq 1..MaxEvents
  /\ nextEvent \in 0..MaxEvents
  /\ Len(calls) <= MaxCalls
  /\ sigints \in 0..MaxSigints
  /\ lastError \in {"none", "ready", "subscribe", "stream"}
  /\ runLen \in -1..BATCH_SIZE
====
